---- MODULE Spec2Model ----
(***************************************************************************)
(* Model of the formula evaluation API (apps/main.py, apps/schemas.py).    *)
(*                                                                         *)
(* One request is handed to evaluate_formulas.  The handler checks the two *)
(* empty-input guards, validates the formula list against the first record *)
(* and then applies every formula, in declaration order, to a private copy *)
(* of every record.  The first error ends the request.                     *)
(*                                                                         *)
(* Python values are modelled as records [t, n, s]: t is the Python type   *)
(* ("num", "str", "bool", "datetime"), n the numeric content and s the     *)
(* characters of a string (a sequence of one-character strings).  Numbers  *)
(* are integer valued floats.  Expressions are sequences of tokens.        *)
(***************************************************************************)
EXTENDS Integers, Sequences, FiniteSets, TLC

\* ---------------------------------------------------------------- bounds
MaxRecords == 2
MaxFormulas == 2
MaxInputs == 2

\* ---------------------------------------------------------------- values
Num(n) == [t |-> "num", n |-> n, s |-> <<>>]
Str(s) == [t |-> "str", n |-> 0, s |-> s]
Bool(b) == [t |-> "bool", n |-> IF b THEN 1 ELSE 0, s |-> <<>>]
DateTime(n) == [t |-> "datetime", n |-> n, s |-> <<>>]

Digits == {"0", "1", "2", "3", "4", "5", "6", "7", "8", "9"}
Letters == {"T", "e", "n", "U", "S", "D"}
Spaces == {" "}

DigitVal(c) ==
    CASE c = "0" -> 0 [] c = "1" -> 1 [] c = "2" -> 2 [] c = "3" -> 3
      [] c = "4" -> 4 [] c = "5" -> 5 [] c = "6" -> 6 [] c = "7" -> 7
      [] c = "8" -> 8 [] c = "9" -> 9

RECURSIVE DecimalValue(_)
DecimalValue(s) ==
    IF s = <<>> THEN 0
    ELSE 10 * DecimalValue(SubSeq(s, 1, Len(s) - 1)) + DigitVal(s[Len(s)])

IsDecimal(s) == s # <<>> /\ \A p \in 1..Len(s) : s[p] \in Digits

\* an outcome of a call: a returned value or a raised exception
Returned(v) == [ok |-> TRUE, value |-> v, exc |-> "", msg |-> ""]
Raised(e, m) == [ok |-> FALSE, value |-> Num(0), exc |-> e, msg |-> m]

\* float(value): numbers and booleans convert, numeric text parses
PyFloat(value) ==
    CASE value.t = "num" -> Returned(Num(value.n))
      [] value.t = "bool" -> Returned(Num(value.n))
      [] value.t = "str" ->
            IF IsDecimal(value.s) THEN Returned(Num(DecimalValue(value.s)))
            ELSE Raised("ValueError", "could not convert string to float")
      [] OTHER -> Raised("TypeError", "float() argument must be a string or a number")

\* bool(value): Python truthiness
PyBool(value) ==
    CASE value.t = "str" -> Bool(value.s # <<>>)
      [] value.t = "datetime" -> Bool(TRUE)
      [] OTHER -> Bool(value.n # 0)

RECURSIVE StripChar(_, _)
StripChar(s, c) ==
    IF s # <<>> /\ s[1] = c THEN StripChar(Tail(s), c)
    ELSE IF s # <<>> /\ s[Len(s)] = c THEN StripChar(SubSeq(s, 1, Len(s) - 1), c)
    ELSE s

RECURSIVE RemoveChar(_, _)
RemoveChar(s, c) ==
    IF s = <<>> THEN <<>>
    ELSE IF s[1] = c THEN RemoveChar(Tail(s), c)
    ELSE <<s[1]>> \o RemoveChar(Tail(s), c)

RECURSIVE TakeWhile(_, _)
TakeWhile(s, set) ==
    IF s # <<>> /\ s[1] \in set THEN <<s[1]>> \o TakeWhile(Tail(s), set)
    ELSE <<>>

Drop(s, k) == SubSeq(s, k + 1, Len(s))
SkipOptional(s, set) == IF s # <<>> /\ s[1] \in set THEN Tail(s) ELSE s

parse_currency(value) ==
    LET text == RemoveChar(value.s, ",")
        afterCode == IF Len(text) >= 3 /\ \A p \in 1..3 : text[p] \in Letters
                     THEN Drop(text, 3) ELSE text
        afterSymbol == SkipOptional(SkipOptional(SkipOptional(afterCode, Spaces), {"$"}), Spaces)
        group2 == TakeWhile(afterSymbol, Digits \cup {",", "."})
    IN  IF group2 # <<>> THEN PyFloat(Str(group2))
        ELSE Raised("ValueError", "Invalid currency format")

\* dateutil's parse: text made of digits is read as a date, other text of
\* this alphabet is refused with a ValueError (ParserError)
parse_date(value) ==
    IF IsDecimal(value.s) THEN Returned(DateTime(DecimalValue(value.s)))
    ELSE Raised("ValueError", "Unknown string format")

convert_variable(value, var_type) ==
    CASE var_type = "number" -> PyFloat(value)
      [] var_type = "boolean" -> Returned(PyBool(value))
      [] var_type = "datetime" ->
            IF value.t = "str" THEN parse_date(value) ELSE Returned(value)
      [] var_type = "percentage" ->
            IF value.t = "str" /\ value.s # <<>> /\ value.s[Len(value.s)] = "%"
            THEN PyFloat(Str(StripChar(value.s, "%")))
            ELSE PyFloat(value)
      [] var_type = "currency" ->
            IF value.t = "str" THEN parse_currency(value) ELSE PyFloat(value)
      [] OTHER -> Raised("ValueError", "Unsupported variable type")

\* ------------------------------------------------------------- numexpr
\* numexpr.evaluate(expression, local_dict): the expression is a sequence of
\* tokens; it is well formed when operands and "+" alternate, starting and
\* ending with an operand.  An operand is a one-digit literal or a name,
\* and every name has to be bound by local_dict.  Operands drawn by this
\* model are numbers; an operand of another type is refused.
IsLiteral(tok) == tok \in Digits
WellFormed(expression) ==
    /\ Len(expression) % 2 = 1
    /\ \A p \in 1..Len(expression) :
          IF p % 2 = 1 THEN expression[p] # "+" ELSE expression[p] = "+"

OperandNames(expression) ==
    {expression[p] : p \in {q \in 1..Len(expression) : q % 2 = 1 /\ ~IsLiteral(expression[q])}}

RECURSIVE SumOperands(_, _)
SumOperands(expression, local_dict) ==
    IF expression = <<>> THEN 0
    ELSE (IF IsLiteral(expression[1]) THEN DigitVal(expression[1])
          ELSE local_dict[expression[1]].n)
         + SumOperands(Drop(expression, 2), local_dict)

evaluate(expression, local_dict) ==
    IF ~WellFormed(expression) THEN Raised("SyntaxError", "invalid syntax")
    ELSE IF ~(OperandNames(expression) \subseteq DOMAIN local_dict)
    THEN Raised("KeyError", "unbound name")
    ELSE IF \E n \in OperandNames(expression) : local_dict[n].t # "num"
    THEN Raised("TypeError", "unsupported operand type")
    ELSE Returned(Num(SumOperands(expression, local_dict)))

\* ------------------------------------------------------------- requests
\* schemas.InputVar, schemas.Formula, schemas.FormulaRequest
InputVar(name, type) == [varName |-> name, varType |-> type]
Formula(out, expr, ins) == [outputVar |-> out, expression |-> expr, inputs |-> ins]
FormulaRequest(d, f) == [data |-> d, formulas |-> f]

\* dict helpers
EmptyDict == <<>>
Put(dict, key, value) ==
    [n \in DOMAIN dict \cup {key} |-> IF n = key THEN value ELSE dict[n]]
Range(seq) == {seq[p] : p \in 1..Len(seq)}
SeqsUpTo(set, max) == UNION {[1..m -> set] : m \in 0..max}

\* ------------------------------------------------------------- inputs
\* The records, input declarations and formulas the requests are drawn from.
Ten == <<"T", "e", "n">>
TwentyPercent == <<"2", "0", "%">>
RecordPool ==
    { [n \in {"a"} |-> Str(Ten)],
      [n \in {"a", "b"} |-> IF n = "a" THEN Num(20) ELSE Str(TwentyPercent)],
      [n \in {"b"} |-> Str(TwentyPercent)] }

InputPool == << InputVar("a", "number"), InputVar("a", "int"),
                InputVar("b", "percentage"), InputVar("x", "currency") >>
OutputVars == {"x", "a"}

\* declared inputs: up to MaxInputs declarations of distinct names
NameRank(name) == CASE name = "a" -> 1 [] name = "b" -> 2 [] name = "x" -> 3
InputLists ==
    {ins \in SeqsUpTo(Range(InputPool), MaxInputs) :
        \A p, q \in 1..Len(ins) :
            p < q => NameRank(ins[p].varName) < NameRank(ins[q].varName)}

\* expression texts: the declared names added up, plus 1 ("a + b + 1"), and
\* the same text cut after its last operator ("a +")
RECURSIVE SumText(_)
SumText(ins) ==
    IF ins = <<>> THEN <<"1">>
    ELSE <<ins[1].varName, "+">> \o SumText(Tail(ins))
CutText(ins) == SubSeq(SumText(ins), 1, Len(SumText(ins)) - 1)

\* every output name with every list of declared inputs and their sum, and
\* with the cut text over the first declaration of the pool
FormulaPool ==
    {Formula(out, SumText(ins), ins) : out \in OutputVars, ins \in InputLists}
      \cup {Formula(out, CutText(<<InputPool[1]>>), <<InputPool[1]>>) : out \in OutputVars}

\* ------------------------------------------------------------- state
VARIABLES
    request,        \* the FormulaRequest as the caller sent it
    data_items,     \* the caller's record objects (request.data), live
    formulas,       \* request.formulas
    pc,             \* position in evaluate_formulas
    available_vars, \* validate_formulas: keys of the first record
    evaluated_vars, \* validate_formulas: outputs of the formulas checked
    vidx,           \* validate_formulas: index of the formula to check next
    results,        \* outputVar -> list of results
    ridx,           \* index of the record being processed
    fidx,           \* index of the formula to apply next to that record
    local_item,     \* the scope of the record being processed
    response,       \* what the caller receives
    calls,          \* how often convert_variable / evaluate ran on record data
    trace           \* history: the formula applications that went through

vars == <<request, data_items, formulas, pc, available_vars, evaluated_vars,
          vidx, results, ridx, fidx, local_item, response, calls, trace>>

\* HTTP outcomes; an error detail keeps the message template and its fields
HTTP_200_OK == 200
HTTP_400_BAD_REQUEST == 400
Detail(kind, var, formula, cause) ==
    [kind |-> kind, var |-> var, formula |-> formula, cause |-> cause]
NoDetail == Detail("", "", "", "")
NoResponse == [status_code |-> 0, detail |-> NoDetail, results |-> EmptyDict]
HTTPException(code, detail) ==
    [status_code |-> code, detail |-> detail, results |-> EmptyDict]

EmptyData == Detail("Empty data", "", "", "")
EmptyFormulas == Detail("Empty formulas", "", "", "")
NotAvailable(var, formula) ==
    Detail("Variable used in formula is not available in data or prior formulas",
           var, formula, "")
SelfReference(formula) ==
    Detail("Formula cannot reference itself in its inputs", "", formula, "")
SyntaxError(formula, cause) ==
    Detail("Error evaluating expression: syntax error in formula", "", formula, cause)
ConvertError(cause) == Detail("Error while converting variable", "", "", cause)
NotFound(var, id) == Detail("Variable not found in data item with id", var, "", id)
EvalError(cause) == Detail("Error evaluating expression", "", "", cause)

Init ==
    /\ \E d \in SeqsUpTo(RecordPool, MaxRecords), f \in SeqsUpTo(FormulaPool, MaxFormulas) :
          /\ request = FormulaRequest(d, f)
          /\ data_items = d
          /\ formulas = f
    /\ pc = "start"
    /\ available_vars = {}
    /\ evaluated_vars = {}
    /\ vidx = 0
    /\ results = EmptyDict
    /\ ridx = 0
    /\ fidx = 0
    /\ local_item = EmptyDict
    /\ response = NoResponse
    /\ calls = [convert |-> 0, evaluate |-> 0]
    /\ trace = <<>>



\* lines 194-195: every HTTPException leaves the handler as a 400
Raise(detail) == HTTPException(HTTP_400_BAD_REQUEST, detail)

\* ------------------------------------------------- validate_formulas
InputNames(formula) == {formula.inputs[p].varName : p \in 1..Len(formula.inputs)}

\* a validation that lets an input refer to the output of any formula of the
\* list, declared before or after
Unavailable_AnyOrder(formula, available, evaluated) ==
    {p \in 1..Len(formula.inputs) :
        /\ formula.inputs[p].varName \notin available
        /\ formula.inputs[p].varName
              \notin {formulas[j].outputVar : j \in 1..Len(formulas)}}

\* lines 85-86: positions of the inputs that are neither a key of the first
\* record nor the output of a formula checked before
Unavailable(formula, available, evaluated) ==
    {p \in 1..Len(formula.inputs) :
        /\ formula.inputs[p].varName \notin available
        /\ formula.inputs[p].varName \notin evaluated}

Min(set) == CHOOSE m \in set : \A o \in set : m <= o

\* line 102: the expression is evaluated with every declared input bound to 1
DryRun(formula) ==
    evaluate(formula.expression, [n \in InputNames(formula) |-> Num(1)])

\* a validation that looks for the self-reference before the availability
validate_formula_SelfFirst(formula, available, evaluated) ==
    IF formula.outputVar \in InputNames(formula)
    THEN SelfReference(formula.outputVar)
    ELSE IF Unavailable(formula, available, evaluated) # {}
    THEN NotAvailable(
            formula.inputs[Min(Unavailable(formula, available, evaluated))].varName,
            formula.outputVar)
    ELSE IF ~DryRun(formula).ok
    THEN SyntaxError(formula.outputVar, DryRun(formula).msg)
    ELSE NoDetail

\* a validation without the self-reference check
validate_formula_NoSelfCheck(formula, available, evaluated) ==
    IF Unavailable(formula, available, evaluated) # {}
    THEN NotAvailable(
            formula.inputs[Min(Unavailable(formula, available, evaluated))].varName,
            formula.outputVar)
    ELSE IF ~DryRun(formula).ok
    THEN SyntaxError(formula.outputVar, DryRun(formula).msg)
    ELSE NoDetail

\* lines 83-110, one formula: the error it is refused with, or NoDetail
validate_formula(formula, available, evaluated) ==
    IF Unavailable(formula, available, evaluated) # {}
    THEN NotAvailable(
            formula.inputs[Min(Unavailable(formula, available, evaluated))].varName,
            formula.outputVar)
    ELSE IF formula.outputVar \in InputNames(formula)
    THEN SelfReference(formula.outputVar)
    ELSE IF ~DryRun(formula).ok
    THEN SyntaxError(formula.outputVar, DryRun(formula).msg)
    ELSE NoDetail

\* ------------------------------------------------- evaluate_formulas
\* item.get('id', 'unknown')
ItemId(item) == IF "id" \in DOMAIN item THEN "given" ELSE "unknown"

\* lines 156-171: the declared inputs are taken one after the other; each is
\* looked up in the scope and converted before the next one is looked at
RECURSIVE PrepareFrom(_, _, _, _, _)
PrepareFrom(inputs, p, scope, item, variables) ==
    IF p > Len(inputs)
    THEN [ok |-> TRUE, variables |-> variables, detail |-> NoDetail, converted |-> Len(inputs)]
    ELSE IF inputs[p].varName \in DOMAIN scope
    THEN LET c == convert_variable(scope[inputs[p].varName], inputs[p].varType)
         IN  IF c.ok
             THEN PrepareFrom(inputs, p + 1, scope, item,
                              Put(variables, inputs[p].varName, c.value))
             ELSE [ok |-> FALSE, variables |-> variables,
                   detail |-> ConvertError(c.msg), converted |-> p]
    ELSE [ok |-> FALSE, variables |-> variables,
          detail |-> NotFound(inputs[p].varName, ItemId(item)), converted |-> p - 1]

PrepareVariables(formula, scope, item) ==
    PrepareFrom(formula.inputs, 1, scope, item, EmptyDict)

\* line 151: local_item = item.copy()
NewScope(items, r, previous) == items[r]

\* a store that leaves a name alone that the scope already holds
StoreInScope_KeepField(items, r, scope, out, value) ==
    [items |-> items,
     scope |-> IF out \in DOMAIN scope THEN scope ELSE Put(scope, out, value)]

\* a store into a scope that is the caller's record itself (no copy made)
StoreInScope_Aliased(items, r, scope, out, value) ==
    [items |-> [items EXCEPT ![r] = Put(@, out, value)],
     scope |-> Put(scope, out, value)]

\* line 181: local_item[formula.outputVar] = result_value, on the copy
StoreInScope(items, r, scope, out, value) ==
    [items |-> items, scope |-> Put(scope, out, value)]

\* line 179: results[formula.outputVar].append(result_value)
AppendResult(res, out, value) == [res EXCEPT ![out] = Append(@, value)]

\* line 146: {formula.outputVar: [] for formula in formulas}
NewResults(fs) == [out \in {fs[p].outputVar : p \in 1..Len(fs)} |-> <<>>]

\* history entry: formula f went through on record r; read holds the values
\* line 161 took out of the scope for the declared inputs, value the result
Applied(r, f, scope, value) ==
    [r |-> r, f |-> f, value |-> value,
     read |-> [n \in InputNames(formulas[f]) |-> scope[n]]]

\* the two guards in the other order
CheckEmptyInput_FormulasFirst ==
    /\ pc = "start"
    /\ IF Len(formulas) = 0
       THEN /\ response' = Raise(EmptyFormulas)
            /\ pc' = "error"
            /\ UNCHANGED <<available_vars, evaluated_vars, vidx>>
       ELSE IF Len(data_items) = 0
       THEN /\ response' = Raise(EmptyData)
            /\ pc' = "error"
            /\ UNCHANGED <<available_vars, evaluated_vars, vidx>>
       ELSE /\ available_vars' = DOMAIN data_items[1]
            /\ evaluated_vars' = {}
            /\ vidx' = 1
            /\ pc' = "validate"
            /\ UNCHANGED response
    /\ UNCHANGED <<request, data_items, formulas, results, ridx, fidx, local_item, calls,
                   trace>>

\* lines 130-143 and 80-81: the two guards, then validate_formulas is entered
CheckEmptyInput ==
    /\ pc = "start"
    /\ IF Len(data_items) = 0
       THEN /\ response' = Raise(EmptyData)
            /\ pc' = "error"
            /\ UNCHANGED <<available_vars, evaluated_vars, vidx>>
       ELSE IF Len(formulas) = 0
       THEN /\ response' = Raise(EmptyFormulas)
            /\ pc' = "error"
            /\ UNCHANGED <<available_vars, evaluated_vars, vidx>>
       ELSE /\ available_vars' = DOMAIN data_items[1]
            /\ evaluated_vars' = {}
            /\ vidx' = 1
            /\ pc' = "validate"
            /\ UNCHANGED response
    /\ UNCHANGED <<request, data_items, formulas, results, ridx, fidx, local_item, calls,
                   trace>>

\* lines 83-110: one turn of the loop of validate_formulas
ValidateFormula ==
    /\ pc = "validate"
    /\ vidx <= Len(formulas)
    /\ LET refusal == validate_formula(formulas[vidx], available_vars, evaluated_vars)
       IN  IF refusal # NoDetail
           THEN /\ response' = Raise(refusal)
                /\ pc' = "error"
                /\ UNCHANGED <<evaluated_vars, vidx>>
           ELSE /\ evaluated_vars' = evaluated_vars \cup {formulas[vidx].outputVar}
                /\ vidx' = vidx + 1
                /\ UNCHANGED <<response, pc>>
    /\ UNCHANGED <<request, data_items, formulas, available_vars, results, ridx, fidx,
                   local_item, calls, trace>>

\* lines 146-151: validation passed; the results are set up and the first
\* record is cloned
BeginExecution ==
    /\ pc = "validate"
    /\ vidx > Len(formulas)
    /\ results' = NewResults(formulas)
    /\ ridx' = 1
    /\ fidx' = 1
    /\ local_item' = NewScope(data_items, 1, local_item)
    /\ pc' = "execute"
    /\ UNCHANGED <<request, data_items, formulas, available_vars, evaluated_vars, vidx,
                   response, calls, trace>>

\* lines 154-186: one formula applied to the current record, then the step
\* to the next formula, the next record (line 151) or the end of the loops
ApplyFormula ==
    /\ pc = "execute"
    /\ LET formula == formulas[fidx]
           prep == PrepareVariables(formula, local_item, data_items[ridx])
           ev == evaluate(formula.expression, prep.variables)
           stored == StoreInScope(data_items, ridx, local_item, formula.outputVar, ev.value)
       IN  IF ~prep.ok
           THEN /\ response' = Raise(prep.detail)
                /\ pc' = "error"
                /\ calls' = [calls EXCEPT !.convert = @ + prep.converted]
                /\ UNCHANGED <<data_items, results, ridx, fidx, local_item, trace>>
           ELSE IF ~ev.ok
           THEN /\ response' = Raise(EvalError(ev.msg))
                /\ pc' = "error"
                /\ calls' = [convert |-> calls.convert + prep.converted,
                             evaluate |-> calls.evaluate + 1]
                /\ UNCHANGED <<data_items, results, ridx, fidx, local_item, trace>>
           ELSE /\ results' = AppendResult(results, formula.outputVar, ev.value)
                /\ data_items' = stored.items
                /\ calls' = [convert |-> calls.convert + prep.converted,
                             evaluate |-> calls.evaluate + 1]
                /\ trace' = Append(trace, Applied(ridx, fidx, local_item, ev.value))
                /\ UNCHANGED response
                /\ IF fidx < Len(formulas)
                   THEN /\ fidx' = fidx + 1
                        /\ local_item' = stored.scope
                        /\ UNCHANGED <<ridx, pc>>
                   ELSE IF ridx < Len(data_items)
                   THEN /\ ridx' = ridx + 1
                        /\ fidx' = 1
                        /\ local_item' = NewScope(stored.items, ridx + 1, stored.scope)
                        /\ UNCHANGED pc
                   ELSE /\ pc' = "return"
                        /\ local_item' = stored.scope
                        /\ UNCHANGED <<ridx, fidx>>
    /\ UNCHANGED <<request, formulas, available_vars, evaluated_vars, vidx>>

\* lines 189-193: the response of a request that went through
ReturnResults ==
    /\ pc = "return"
    /\ response' = [status_code |-> HTTP_200_OK, detail |-> NoDetail, results |-> results]
    /\ pc' = "done"
    /\ UNCHANGED <<request, data_items, formulas, available_vars, evaluated_vars, vidx,
                   results, ridx, fidx, local_item, calls, trace>>

Next ==
    \/ CheckEmptyInput
    \/ ValidateFormula
    \/ BeginExecution
    \/ ApplyFormula
    \/ ReturnResults

Spec == Init /\ [][Next]_vars

\* ------------------------------------------------------------- claims
NotAvailableKind == NotAvailable("", "").kind
SelfReferenceKind == SelfReference("").kind
SyntaxErrorKind == SyntaxError("", "").kind
ConversionErrorKind == ConvertError("").kind
MissingFieldKind == NotFound("", "").kind
ValidationKinds == {NotAvailableKind, SelfReferenceKind, SyntaxErrorKind}

Max(set) == CHOOSE m \in set : \A o \in set : m >= o
Entries == Range(trace)
NonEmptyRequest == Len(request.data) > 0 /\ Len(request.formulas) > 0
PastValidation == pc \notin {"start", "validate"}
NoRecordTouched == calls.convert = 0 /\ calls.evaluate = 0 /\ trace = <<>>

\* outputs of the formulas declared before formula p
OutputsBefore(p) == {request.formulas[j].outputVar : j \in 1..(p - 1)}
\* declared input q of formula p is neither a field of the first record nor
\* the output of an earlier formula
UnresolvedInput(p, q) ==
    request.formulas[p].inputs[q].varName
        \notin (DOMAIN request.data[1] \cup OutputsBefore(p))
AllResolved(p) == \A q \in 1..Len(request.formulas[p].inputs) : ~UnresolvedInput(p, q)
SelfReferring(p) == request.formulas[p].outputVar \in InputNames(request.formulas[p])
\* formula p gives validation no reason to refuse it
Sound(p) ==
    /\ AllResolved(p)
    /\ ~SelfReferring(p)
    /\ WellFormed(request.formulas[p].expression)
    /\ OperandNames(request.formulas[p].expression) \subseteq InputNames(request.formulas[p])
\* the request went into execution and stopped at formula fidx of record
\* ridx, whose scope lacks one of the declared inputs
StoppedOnMissingInput ==
    /\ pc = "error"
    /\ ridx >= 1
    /\ ~(InputNames(formulas[fidx]) \subseteq DOMAIN local_item)

\* C1: a request that succeeds returns, for every formula's output variable,
\* a series of exactly N values (N records) whose k-th value is that
\* formula's result for record k - for every accepted formula list, two
\* formulas with the same output variable included.
C1_OneValuePerRecord ==
    pc = "done" =>
        \A p \in 1..Len(formulas) :
            LET series == response.results[formulas[p].outputVar]
            IN  /\ Len(series) = Len(request.data)
                /\ \A e \in Entries : e.f = p => series[e.r] = e.value

\* C2: within one record the formulas run in declaration order and each
\* result is written into the record's scope under the output variable: an
\* input n of formula i is read as the result of the latest formula j < i
\* with output n for the same record if there is one (also when n is a field
\* of the record), and as the record's own field n otherwise.
C2_Chaining ==
    /\ \A t \in 1..Len(trace) :
          IF t = 1 THEN trace[t].r = 1 /\ trace[t].f = 1
          ELSE \/ trace[t].r = trace[t - 1].r /\ trace[t].f = trace[t - 1].f + 1
               \/ /\ trace[t].r = trace[t - 1].r + 1
                  /\ trace[t].f = 1
                  /\ trace[t - 1].f = Len(formulas)
    /\ \A e \in Entries :
          \A n \in InputNames(formulas[e.f]) :
             LET earlier == {j \in 1..(e.f - 1) : formulas[j].outputVar = n}
             IN  IF earlier # {}
                 THEN \E w \in Entries :
                         w.r = e.r /\ w.f = Max(earlier) /\ e.read[n] = w.value
                 ELSE e.read[n] = request.data[e.r][n]
    /\ (pc = "execute" /\ fidx > 1) =>
          /\ formulas[fidx - 1].outputVar \in DOMAIN local_item
          /\ local_item[formulas[fidx - 1].outputVar] = trace[Len(trace)].value

\* a later formula read a field of the record that an earlier formula had
\* overwritten
C2_Witness ==
    \E e \in Entries :
        \E n \in InputNames(formulas[e.f]) :
            /\ n \in DOMAIN request.data[e.r]
            /\ \E j \in 1..(e.f - 1) : formulas[j].outputVar = n
            /\ e.read[n] # request.data[e.r][n]

\* C3: when a record lacks a field a formula requires at the moment that
\* formula is reached, the request ends with the missing-field error (400,
\* "Variable ... not found in data item") and exposes no results, also none
\* of the records evaluated before.
C3_FailFastMissingField ==
    StoppedOnMissingInput =>
        /\ response.status_code = HTTP_400_BAD_REQUEST
        /\ response.detail.kind = MissingFieldKind
        /\ response.results = EmptyDict

\* C4: a formula F declaring an input v that is neither a field of the first
\* record nor an output of an earlier formula makes validation fail with the
\* unresolved-variable error naming v and F, before any record is evaluated.
C4_UnresolvedAlwaysNamed ==
    (PastValidation /\ NonEmptyRequest) =>
        \A p \in 1..Len(formulas) : \A q \in 1..Len(formulas[p].inputs) :
            UnresolvedInput(p, q) =>
                /\ response = Raise(NotAvailable(formulas[p].inputs[q].varName,
                                                 formulas[p].outputVar))
                /\ NoRecordTouched

\* C4 as amended: such a formula list is always refused by validation, before
\* any record is evaluated; the error is the unresolved-variable error naming
\* v and F when no formula declared before F is refused and v is the first
\* unresolved input F declares.
C4_UnresolvedRefused ==
    (PastValidation /\ NonEmptyRequest) =>
        \A p \in 1..Len(formulas) : \A q \in 1..Len(formulas[p].inputs) :
            UnresolvedInput(p, q) =>
                /\ pc = "error"
                /\ response.status_code = HTTP_400_BAD_REQUEST
                /\ response.detail.kind \in ValidationKinds
                /\ NoRecordTouched
                /\ ((\A j \in 1..(p - 1) : Sound(j))
                      /\ (\A o \in 1..(q - 1) : ~UnresolvedInput(p, o)))
                    => response = Raise(NotAvailable(formulas[p].inputs[q].varName,
                                                     formulas[p].outputVar))

\* the second formula was refused for an unresolved input after the first
\* one had been accepted
C4_Witness ==
    /\ pc = "error"
    /\ vidx = 2
    /\ response.detail.kind = NotAvailableKind
    /\ \E q \in 1..Len(formulas[2].inputs) : UnresolvedInput(2, q)

\* C5: a formula whose output variable is among its own inputs is always
\* refused with the self-reference error, whatever the other formulas are
\* and whether or not the variable is a field of the first record.
C5_SelfReferenceAlwaysNamed ==
    (PastValidation /\ NonEmptyRequest) =>
        \A p \in 1..Len(formulas) :
            SelfReferring(p) => response = Raise(SelfReference(formulas[p].outputVar))

\* C5 as amended: such a formula list is always refused by validation; the
\* error is the self-reference error naming the formula when no formula
\* declared before it is refused and every input it declares is a field of
\* the first record or the output of an earlier formula.
C5_SelfReferenceRefused ==
    (PastValidation /\ NonEmptyRequest) =>
        \A p \in 1..Len(formulas) :
            SelfReferring(p) =>
                /\ pc = "error"
                /\ response.status_code = HTTP_400_BAD_REQUEST
                /\ response.detail.kind \in ValidationKinds
                /\ NoRecordTouched
                /\ ((\A j \in 1..(p - 1) : Sound(j)) /\ AllResolved(p))
                    => response = Raise(SelfReference(formulas[p].outputVar))

\* the second formula names the output of the first one both as its input
\* and as its own output, and was refused for it
C5_Witness ==
    /\ pc = "error"
    /\ vidx = 2
    /\ response.detail.kind = SelfReferenceKind
    /\ SelfReferring(2)
    /\ formulas[2].outputVar \notin DOMAIN request.data[1]

\* C6: an empty record list ends with "Empty data" and an empty formula list
\* with "Empty formulas" (400 each), whatever the other list holds, before
\* validate_formulas runs or a record is touched; with both lists empty the
\* record guard comes first.
C6_EmptyGuards ==
    (pc # "start" /\ ~NonEmptyRequest) =>
        /\ pc = "error"
        /\ response = Raise(IF Len(request.data) = 0 THEN EmptyData ELSE EmptyFormulas)
        /\ response.status_code = HTTP_400_BAD_REQUEST
        /\ vidx = 0
        /\ available_vars = {}
        /\ NoRecordTouched

\* both lists were empty and the request ended on the guard
C6_Witness ==
    /\ pc = "error"
    /\ Len(request.data) = 0
    /\ Len(request.formulas) = 0
    /\ response.detail = EmptyData

\* C7: a type tag outside the five supported ones ends in an error of
\* another kind than the conversion error of a value that cannot be coerced.
C7_UnsupportedTypeDistinct ==
    (pc = "error" /\ response.detail.cause = "Unsupported variable type") =>
        response.detail.kind # ConversionErrorKind

\* C8: every declared input is looked up before any value is coerced: when
\* an input of the formula is absent from the scope the outcome is the
\* missing-field error, also when an input declared before it is present but
\* cannot be coerced.
C8_LookupBeforeCoercion ==
    StoppedOnMissingInput => response.detail.kind = MissingFieldKind

\* C9: every record's scope starts as a private copy of that record alone:
\* the caller's records stay as they were, and the scope of record k holds
\* the fields of record k and the outputs computed for record k only.
C9_RecordsIndependent ==
    /\ data_items = request.data
    /\ pc = "execute" =>
          /\ DOMAIN local_item = DOMAIN request.data[ridx] \cup OutputsBefore(fidx)
          /\ \A n \in DOMAIN local_item :
                IF n \in OutputsBefore(fidx)
                THEN \E w \in Entries :
                        /\ w.r = ridx
                        /\ w.f = Max({j \in 1..(fidx - 1) : formulas[j].outputVar = n})
                        /\ local_item[n] = w.value
                ELSE local_item[n] = request.data[ridx][n]

\* the second record is being processed after a formula overwrote a field
\* of the first record in its scope and added an output to it
C9_Witness ==
    /\ pc = "execute"
    /\ ridx = 2
    /\ DOMAIN request.data[2] # DOMAIN request.data[1]
    /\ \E e \in Entries : e.r = 1 /\ formulas[e.f].outputVar \in DOMAIN request.data[1]
    /\ \E e \in Entries : e.r = 1 /\ formulas[e.f].outputVar \notin DOMAIN request.data[1]

\* C10: when validation accepts the formulas and every record has at least
\* the fields of the first record, no formula ever misses an input: every
\* declared input is in the scope when its formula is reached, and the
\* request never ends with the missing-field error.
Homogeneous ==
    \A r \in 1..Len(request.data) : DOMAIN request.data[1] \subseteq DOMAIN request.data[r]
C10_ValidatedInputsFound ==
    Homogeneous =>
        /\ pc = "execute" => InputNames(formulas[fidx]) \subseteq DOMAIN local_item
        /\ pc = "error" => response.detail.kind # MissingFieldKind

\* a formula of the second record, which has more fields than the first, is
\* reached and reads the output of the formula before it
C10_Witness ==
    /\ pc = "execute"
    /\ Homogeneous
    /\ ridx = 2
    /\ fidx = 2
    /\ DOMAIN request.data[2] # DOMAIN request.data[1]
    /\ formulas[1].outputVar \in InputNames(formulas[2])
    /\ formulas[1].outputVar \notin DOMAIN request.data[2]

====
